---- MODULE Spec2Model ----
(***************************************************************************)
(* The points ledger of the Dream11 leaderboard bot (database.py, utils.py)*)
(* and the bot's handlers of the !win, !undo and !clearpoints commands    *)
(* and its match-alert loop (dream11_bot.py).                              *)
(*                                                                         *)
(* The three Supabase tables 'points', 'history' and 'match_results' are   *)
(* the state.  update_points, clear_points and undo_last_points_update     *)
(* build a list of operations and hand it to execute_in_transaction, which *)
(* sends them to the store one by one.  Each of the three is wrapped by    *)
(* utils.retry_on_error(max_retries=3).                                    *)
(*                                                                         *)
(* The function bodies are synchronous, so one execution of a body (one    *)
(* attempt of the retry wrapper) is one atomic step of the process; the    *)
(* wrapper suspends in asyncio.sleep between attempts, where other calls   *)
(* may run.  A store call may raise (network, timeout): the step that      *)
(* raises is an input of each attempt.  The timestamp of an attempt is     *)
(* datetime.now(), the naive local wall clock, which is not monotonic; it  *)
(* is an input of each attempt as well.                                    *)
(*                                                                         *)
(* Strings are modelled as tuples of one-character strings wherever the    *)
(* code inspects them (startswith / endswith / f-strings).                 *)
(***************************************************************************)
EXTENDS Integers, Sequences, FiniteSets, TLC

----------------------------------------------------------------------------
(* Configuration: the defaults of config.py *)

MAX_POINTS_PER_UPDATE == 100

MAX_MATCH_NUMBER == 74

COMMAND_COOLDOWN == 5

MAX_COMMANDS_PER_MINUTE == 30

VARIABLES
    points,         \* table 'points': rows [username, user_points], insertion order
    history,        \* table 'history': rows [id, username, points, match_number, updated_by, timestamp]
    match_results,  \* table 'match_results': rows [match_number, winner, timestamp]
    nextId,         \* the serial that gives history rows their id
    nruns,          \* executions of a function body so far
    pc,             \* per task: "idle" or "sleeping" (inside retry_on_error, between attempts)
    call,           \* per task: the task's latest call (function and arguments)
    attempt,        \* per task: executions of the body in the task's latest call
    start,          \* per task: the stores when the task's latest call began
    outcome,        \* per task: how the last completed call ended
    last,           \* the most recent execution of a function body, with the stores before it
    clock,          \* the wall clock, in seconds
    command_counts,     \* utils.command_counts: user id -> [count, reset_time]
    command_cooldowns,  \* utils.command_cooldowns: <<user id, command>> -> time
    last_command_time,  \* dream11_bot.last_command_time
    nmsgs,          \* messages handled so far
    msg,            \* the most recent message handled by on_message, with its reply
    alert_clock,    \* datetime.now(timezone.utc) in check_match_alerts, in minutes
    user_alerts,    \* table 'user_alerts': user id -> enabled, for the users with a row
    dms,            \* match alerts delivered so far, per <<match, user>>
    nloops          \* iterations of the alert loop so far

ledgerVars ==
    <<points, history, match_results, nextId, nruns, pc, call, attempt, start, outcome, last>>

botVars == <<clock, command_counts, command_cooldowns, last_command_time, nmsgs, msg>>

alertVars == <<alert_clock, user_alerts, dms, nloops>>

vars == <<ledgerVars, botVars, alertVars>>

----------------------------------------------------------------------------
(* Bounds of the model *)

\* executions of a function body (attempts of the retry wrapper) in one behaviour
MaxRuns == 3

\* concurrent callers of the ledger functions
Tasks == {1, 2}

\* readings of the wall clock
Timestamps == {0, 1}

----------------------------------------------------------------------------
(* Strings *)

\* f"<@{x}>"
Mention(x) == <<"<", "@">> \o x \o <<">">>

StartsWith(s, p) == Len(s) >= Len(p) /\ SubSeq(s, 1, Len(p)) = p

EndsWith(s, p) == Len(s) >= Len(p) /\ SubSeq(s, Len(s) - Len(p) + 1, Len(s)) = p

\* str({'neq': ''}): what the filter .eq('username', {'neq': ''}) compares with
NeqEmpty == <<"{", "'", "n", "e", "q", "'", ":", " ", "'", "'", "}">>

\* the usernames callers pass: a bare id and a mention
UsernameInputs == { <<"7">>, Mention(<<"8">>) }

PointsInputs == {1}

MatchInputs == {1, 2}

UpdatedByInputs == {"admin"}

----------------------------------------------------------------------------
(* The store: supabase.table(t).insert / update / delete, as used by       *)
(* execute_in_transaction.  db is the record of the three tables and the   *)
(* history serial.                                                         *)

\* query.eq(key, value) for each (key, value) of the operation's conditions
Matches(row, conditions) ==
    \A i \in 1..Len(conditions) : row[conditions[i][1]] = conditions[i][2]

\* supabase.table(table).insert(data).execute(); the store numbers history rows
Insert(db, table, data) ==
    IF table = "history"
    THEN [db EXCEPT !.history = Append(@, [id |-> db.nextId] @@ data),
                    !.nextId = @ + 1]
    ELSE [db EXCEPT ![table] = Append(@, data)]

\* Update gone wrong: the rows the filters match are removed
Update_DropsRow(db, table, data, conditions) ==
    [db EXCEPT ![table] = SelectSeq(@, LAMBDA row : ~Matches(row, conditions))]

\* Update gone wrong: the eq filters are dropped and every row is written
Update_AllRows(db, table, data, conditions) ==
    [db EXCEPT ![table] =
        [i \in 1..Len(@) |->
            [f \in DOMAIN @[i] |-> IF f \in DOMAIN data THEN data[f] ELSE @[i][f]]]]

\* supabase.table(table).update(data) with the eq filters
Update(db, table, data, conditions) ==
    [db EXCEPT ![table] =
        [i \in 1..Len(@) |->
            IF Matches(@[i], conditions)
            THEN [f \in DOMAIN @[i] |-> IF f \in DOMAIN data THEN data[f] ELSE @[i][f]]
            ELSE @[i]]]

\* Delete gone wrong: the filter is dropped and one row is removed per call
Delete_OneRow(db, table, conditions) ==
    [db EXCEPT ![table] = IF Len(@) = 0 THEN @ ELSE Tail(@)]

\* supabase.table(table).delete() with the eq filters
Delete(db, table, conditions) ==
    [db EXCEPT ![table] = SelectSeq(@, LAMBDA row : ~Matches(row, conditions))]

\* the actions execute_in_transaction knows; any other raises ValueError
KnownActions == {"insert", "update", "delete"}

ApplyOp(db, op) ==
    CASE op.action = "insert" -> Insert(db, op.table, op.data)
      [] op.action = "update" -> Update(db, op.table, op.data, op.conditions)
      [] op.action = "delete" -> Delete(db, op.table, op.conditions)

\* The loop of execute_in_transaction from operation i on.  fault = i: the
\* store call of operation i raises.  Whatever raises becomes a
\* TransactionError; the operations already executed stay executed.
RECURSIVE RunOps(_, _, _, _)
RunOps(db, operations, i, fault) ==
    IF i > Len(operations) THEN [db |-> db, raised |-> FALSE]
    ELSE IF operations[i].action \notin KnownActions THEN [db |-> db, raised |-> TRUE]
    ELSE IF fault = i THEN [db |-> db, raised |-> TRUE]
    ELSE RunOps(ApplyOp(db, operations[i]), operations, i + 1, fault)

execute_in_transaction(db, operations, fault) == RunOps(db, operations, 1, fault)

\* fault value for "a select raises"; 0 is "no store call raises"
ReadFault == -1

NoFault == 0

\* an operation record; data and conditions default to empty
Op(table, action, data, conditions) ==
    [table |-> table, action |-> action, data |-> data, conditions |-> conditions]

----------------------------------------------------------------------------
(* database.py: the bodies of the three mutating functions.  Each yields   *)
(* the stores after the body, whether it raised, and the value returned.   *)

\* lines 149-151
Normalize(username) ==
    IF ~StartsWith(username, <<"<", "@">>) \/ ~EndsWith(username, <<">">>)
    THEN Mention(username)
    ELSE username

\* select('user_points').eq('username', username)
SelectPoints(db, username) == SelectSeq(db.points, LAMBDA row : row.username = username)

update_points(db, username, pts, match_number, updated_by, now, fault) ==
    LET uname == Normalize(username)
        current_points == SelectPoints(db, uname)
        pointsOp ==
            IF Len(current_points) = 0
            THEN Op("points", "insert", [username |-> uname, user_points |-> pts], <<>>)
            ELSE Op("points", "update",
                    [user_points |-> current_points[1].user_points + pts],
                    << <<"username", uname>> >>)
        historyOp ==
            Op("history", "insert",
               [username |-> uname, points |-> pts, match_number |-> match_number,
                updated_by |-> updated_by, timestamp |-> now], <<>>)
        matchOp ==
            Op("match_results", "upsert",
               [match_number |-> match_number, winner |-> uname, timestamp |-> now], <<>>)
        r == execute_in_transaction(db, <<pointsOp, historyOp, matchOp>>, fault)
    IN  IF fault = ReadFault
        THEN [db |-> db, raised |-> TRUE, value |-> "None"]
        ELSE [db |-> r.db, raised |-> r.raised, value |-> "None"]

clear_points(db, fault) ==
    LET operations ==
            << Op("points", "delete", <<>>, << <<"username", NeqEmpty>> >>),
               Op("history", "delete", <<>>, << <<"username", NeqEmpty>> >>) >>
        r == execute_in_transaction(db, operations, fault)
    IN  [db |-> r.db, raised |-> r.raised, value |-> "None"]

\* order('timestamp', desc=True).limit(1): a row with the greatest timestamp
LatestEntries(db) ==
    { db.history[i] : i \in { j \in 1..Len(db.history) :
        \A k \in 1..Len(db.history) : db.history[k].timestamp <= db.history[j].timestamp } }

\* entry is the row the first select returned (any row when history is empty)
undo_last_points_update(db, entry, fault) ==
    LET current_points == SelectPoints(db, entry.username)
        pointsOps ==
            IF Len(current_points) > 0
            THEN << Op("points", "update",
                       [user_points |-> current_points[1].user_points - entry.points],
                       << <<"username", entry.username>> >>) >>
            ELSE <<>>
        operations == pointsOps \o << Op("history", "delete", <<>>, << <<"id", entry.id>> >>) >>
        r == execute_in_transaction(db, operations, fault)
    IN  IF fault = ReadFault THEN [db |-> db, raised |-> TRUE, value |-> "None"]
        ELSE IF Len(db.history) = 0 THEN [db |-> db, raised |-> FALSE, value |-> "False"]
        ELSE [db |-> r.db, raised |-> r.raised, value |-> IF r.raised THEN "None" ELSE "True"]

----------------------------------------------------------------------------
(* utils.retry_on_error and the calls *)

\* @retry_on_error(max_retries=3, delay=1)
max_retries == 3

\* The wrapper does `return await func(*args, **kwargs)` on plain functions:
\* what they return (None, a tuple) is not awaitable, and the await raises
\* TypeError inside the wrapper's try.
AwaitRaises(value) == value \in {"None", "True", "False"}

DB == [points |-> points, history |-> history,
       match_results |-> match_results, nextId |-> nextId]

NoCall == [fn |-> "none", username |-> <<>>, points |-> 0,
           match_number |-> 0, updated_by |-> "none"]

NoEntry == [id |-> 0, username |-> <<>>, points |-> 0]

\* the rows the first select of undo_last_points_update may return
Entries(db) == IF Len(db.history) = 0 THEN {NoEntry} ELSE LatestEntries(db)

\* the store calls of a body that may raise (0: none does)
Faults(fn) ==
    CASE fn = "update_points" -> {NoFault, 1, 2}
      [] fn = "clear_points" -> {NoFault, 1, 2}
      [] fn = "undo_last_points_update" -> {ReadFault, NoFault, 1, 2}

Body(db, c, entry, now, fault) ==
    CASE c.fn = "update_points" ->
            update_points(db, c.username, c.points, c.match_number, c.updated_by, now, fault)
      [] c.fn = "clear_points" -> clear_points(db, fault)
      [] c.fn = "undo_last_points_update" -> undo_last_points_update(db, entry, fault)

\* wrapper gone wrong: the last failure is swallowed and the call returns
WrapperNext_Swallow(att, failed) ==
    IF ~failed THEN "return"
    ELSE IF att < max_retries - 1 THEN "sleep"
    ELSE "return"

\* What the wrapper does after attempt number att (from 0) of the body:
\* return its value, sleep and go round again, or raise the last exception.
WrapperNext(att, failed) ==
    IF ~failed THEN "return"
    ELSE IF att < max_retries - 1 THEN "sleep"
    ELSE "raise"

\* One iteration of the wrapper's loop for task t, whose call began with the
\* stores st: the body runs once, and the wrapper returns, sleeps before the
\* next attempt, or raises.
Run(t, c, att, st, entry, now, fault) ==
    LET r == Body(DB, c, entry, now, fault)
        failed == r.raised \/ AwaitRaises(r.value)
        next == WrapperNext(att, failed)
    IN  /\ nruns' = nruns + 1
        /\ UNCHANGED <<botVars, alertVars>>
        /\ points' = r.db.points
        /\ history' = r.db.history
        /\ match_results' = r.db.match_results
        /\ nextId' = r.db.nextId
        /\ last' = [fn |-> c.fn, task |-> t, username |-> c.username, points |-> c.points,
                    match_number |-> c.match_number, updated_by |-> c.updated_by,
                    now |-> now, entry |-> entry.id, fault |-> fault,
                    raised |-> r.raised, value |-> r.value, before |-> DB,
                    prev |-> [fn |-> last.fn, raised |-> last.raised]]
        /\ call' = [call EXCEPT ![t] = c]
        /\ attempt' = [attempt EXCEPT ![t] = att + 1]
        /\ start' = [start EXCEPT ![t] = st]
        /\ pc' = [pc EXCEPT ![t] = IF next = "sleep" THEN "sleeping" ELSE "idle"]
        /\ outcome' = [outcome EXCEPT ![t] =
                CASE next = "return" -> "returned"
                  [] next = "sleep" -> "pending"
                  [] next = "raise" -> "raised"]

\* Run, within the bound on executions
Attempt(t, c, att, st, entry, now, fault) ==
    /\ nruns < MaxRuns
    /\ Run(t, c, att, st, entry, now, fault)

\* await update_points(username, points, match_number, updated_by)
CallUpdatePoints(t) ==
    /\ pc[t] = "idle"
    /\ \E username \in UsernameInputs, pts \in PointsInputs,
          match_number \in MatchInputs, updated_by \in UpdatedByInputs,
          now \in Timestamps, fault \in Faults("update_points") :
            Attempt(t, [fn |-> "update_points", username |-> username, points |-> pts,
                        match_number |-> match_number, updated_by |-> updated_by],
                    0, DB, NoEntry, now, fault)

\* await clear_points()
CallClearPoints(t) ==
    /\ pc[t] = "idle"
    /\ \E fault \in Faults("clear_points") :
            Attempt(t, [NoCall EXCEPT !.fn = "clear_points"], 0, DB, NoEntry, 0, fault)

\* await undo_last_points_update()
CallUndoLast(t) ==
    /\ pc[t] = "idle"
    /\ \E entry \in Entries(DB), fault \in Faults("undo_last_points_update") :
            Attempt(t, [NoCall EXCEPT !.fn = "undo_last_points_update"], 0, DB, entry, 0, fault)

\* the wrapper wakes from asyncio.sleep and runs the body again
Retry(t) ==
    /\ pc[t] = "sleeping"
    /\ \E entry \in (IF call[t].fn = "undo_last_points_update" THEN Entries(DB) ELSE {NoEntry}),
          now \in (IF call[t].fn = "update_points" THEN Timestamps ELSE {0}),
          fault \in Faults(call[t].fn) :
            Attempt(t, call[t], attempt[t], start[t], entry, now, fault)

----------------------------------------------------------------------------
(* The stores when the process starts.  The tables live in an external     *)
(* database that the program attaches to and never creates or resets       *)
(* (init_db only checks that they exist): it starts empty, or holding one  *)
(* recorded win with its match result.                                     *)

EmptyLedger ==
    [points |-> <<>>, history |-> <<>>, match_results |-> <<>>, nextId |-> 1]

SeededLedger ==
    [points |-> << [username |-> Mention(<<"7">>), user_points |-> 1] >>,
     history |-> << [id |-> 1, username |-> Mention(<<"7">>), points |-> 1,
                     match_number |-> 1, updated_by |-> "owner", timestamp |-> 1] >>,
     match_results |-> << [match_number |-> 1, winner |-> Mention(<<"7">>), timestamp |-> 1] >>,
     nextId |-> 2]

InitLedgers == {EmptyLedger, SeededLedger}

Init ==
    \E db \in InitLedgers :
        /\ points = db.points
        /\ history = db.history
        /\ match_results = db.match_results
        /\ nextId = db.nextId
        /\ nruns = 0
        /\ pc = [t \in Tasks |-> "idle"]
        /\ call = [t \in Tasks |-> NoCall]
        /\ attempt = [t \in Tasks |-> 0]
        /\ start = [t \in Tasks |-> db]
        /\ outcome = [t \in Tasks |-> "none"]
        /\ last = [fn |-> "none", task |-> 0, username |-> <<>>, points |-> 0,
                   match_number |-> 0, updated_by |-> "none", now |-> 0, entry |-> 0,
                   fault |-> NoFault, raised |-> FALSE, value |-> "None", before |-> db,
                   prev |-> [fn |-> "none", raised |-> FALSE]]
        /\ clock = COMMAND_COOLDOWN + 1
        /\ command_counts = [u \in {} |-> 0]
        /\ command_cooldowns = [k \in {} |-> 0]
        /\ last_command_time = 0
        /\ nmsgs = 0
        /\ alert_clock = 0
        /\ user_alerts = [u \in {} |-> FALSE]
        /\ dms = [k \in {} |-> 0]
        /\ nloops = 0
        /\ msg = [author |-> 0, command |-> "none", parts |-> <<>>, today |-> 0, stage |-> "none",
                  sent |-> "none", called |-> FALSE, before |-> db]

Next ==
    \E t \in Tasks :
        \/ CallUpdatePoints(t)
        \/ CallClearPoints(t)
        \/ CallUndoLast(t)
        \/ Retry(t)

Spec == Init /\ [][Next]_vars

----------------------------------------------------------------------------
(* The ledger when the store never fails and the clock never goes back:
   the calls of two tasks interleave at the wrapper's sleeps, every store
   request succeeds, and each execution reads a later datetime.now(). *)

\* executions of a body in a behaviour without store failures
MaxNoFaultRuns == 6

\* datetime.now() of the next execution: later than every timestamp so far
Clock == nruns + 2

AwardNoFault(t) ==
    /\ pc[t] = "idle"
    /\ nruns < MaxNoFaultRuns
    /\ \E username \in UsernameInputs, pts \in PointsInputs,
          match_number \in MatchInputs, updated_by \in UpdatedByInputs :
            Run(t, [fn |-> "update_points", username |-> username, points |-> pts,
                    match_number |-> match_number, updated_by |-> updated_by],
                0, DB, NoEntry, Clock, NoFault)

UndoNoFault(t) ==
    /\ pc[t] = "idle"
    /\ nruns < MaxNoFaultRuns
    /\ \E entry \in Entries(DB) :
            Run(t, [NoCall EXCEPT !.fn = "undo_last_points_update"],
                0, DB, entry, Clock, NoFault)

RetryNoFault(t) ==
    /\ pc[t] = "sleeping"
    /\ nruns < MaxNoFaultRuns
    /\ \E entry \in (IF call[t].fn = "undo_last_points_update"
                      THEN Entries(DB) ELSE {NoEntry}) :
            Run(t, call[t], attempt[t], start[t], entry, Clock, NoFault)

NextNoFault ==
    \E t \in Tasks :
        \/ AwardNoFault(t)
        \/ UndoNoFault(t)
        \/ RetryNoFault(t)

SpecNoFault == Init /\ [][NextNoFault]_vars

----------------------------------------------------------------------------
(* update_points called with any delta: the function is public, and only
   the !win handler fixes its points argument to 1. *)

\* executions of a body in a behaviour with arbitrary deltas
MaxDeltaRuns == 3

\* deltas within and beyond Config.MAX_POINTS_PER_UPDATE
DeltaInputs == {1, MAX_POINTS_PER_UPDATE + 1, 0 - (MAX_POINTS_PER_UPDATE + 1)}

AwardAnyDelta(t) ==
    /\ pc[t] = "idle"
    /\ nruns < MaxDeltaRuns
    /\ \E username \in UsernameInputs, pts \in DeltaInputs,
          match_number \in MatchInputs, updated_by \in UpdatedByInputs :
            Run(t, [fn |-> "update_points", username |-> username, points |-> pts,
                    match_number |-> match_number, updated_by |-> updated_by],
                0, DB, NoEntry, Clock, NoFault)

RetryAnyDelta(t) ==
    /\ pc[t] = "sleeping"
    /\ nruns < MaxDeltaRuns
    /\ call[t].fn = "update_points"
    /\ Run(t, call[t], attempt[t], start[t], NoEntry, Clock, NoFault)

NextAnyDelta ==
    \E t \in Tasks :
        \/ AwardAnyDelta(t)
        \/ RetryAnyDelta(t)

SpecAnyDelta == Init /\ [][NextAnyDelta]_vars

----------------------------------------------------------------------------
(* update_points called with each way of naming one user that the !win
   handler lets through: validate_input accepts an alphanumeric word and
   whatever is_mention accepts, and the handler passes the word on as it
   is. *)

\* executions of a body in a behaviour with the forms of a user's name
MaxMentionRuns == 3

\* user 8 by id, by mention <@8>, and by nickname mention <@!8>
MentionInputs == { <<"8">>, Mention(<<"8">>), Mention(<<"!", "8">>) }

AwardAnyMention(t) ==
    /\ pc[t] = "idle"
    /\ nruns < MaxMentionRuns
    /\ \E username \in MentionInputs, pts \in PointsInputs,
          match_number \in MatchInputs, updated_by \in UpdatedByInputs :
            Run(t, [fn |-> "update_points", username |-> username, points |-> pts,
                    match_number |-> match_number, updated_by |-> updated_by],
                0, DB, NoEntry, Clock, NoFault)

RetryAnyMention(t) ==
    /\ pc[t] = "sleeping"
    /\ nruns < MaxMentionRuns
    /\ call[t].fn = "update_points"
    /\ Run(t, call[t], attempt[t], start[t], NoEntry, Clock, NoFault)

NextAnyMention ==
    \E t \in Tasks :
        \/ AwardAnyMention(t)
        \/ RetryAnyMention(t)

SpecAnyMention == Init /\ [][NextAnyMention]_vars

----------------------------------------------------------------------------
(* The !win command (dream11_bot.on_message).  A message is its author,
   the whitespace-separated words after "!win", and the readings of the
   clock when it is handled: the seconds, and the calendar date.  The
   handler contains no await before its reply other than the reply itself,
   so handling one message is one step. *)

\* messages handled in one behaviour
MaxMessages == 2

\* message.author.id: the bot itself, an admin, an ordinary user
ClientUser == 1

ADMIN_USER_IDS == {2}

Authors == {ClientUser, 2, 3}

\* seconds between two messages
TimeSteps == {0, COMMAND_COOLDOWN}

\* datetime.now().date(), as a day number
Dates == {1, 2}

\* the schedule read from IPL_2025_SEASON_SCHEDULE.csv: match -> its row,
\* with the date as a day number and the start as the minute of that day
IPL_2025_SCHEDULE == [m \in {1, 2} |-> [date |-> m, start |-> 3]]

\* the first word after "!win"
UsernameWords == { <<"7">>, Mention(<<"8">>), <<"a", "!">> }

\* the second word after "!win"
MatchWords == { <<"0">>, <<"1">>, <<"3">>, <<"7", "5">>, <<"x">> }

\* message.content[len("!win "):].strip().split()
WinParts ==
    { <<u>> : u \in UsernameWords }
        \cup { <<u, m>> : u \in UsernameWords, m \in MatchWords }

Digits == <<"0", "1", "2", "3", "4", "5", "6", "7", "8", "9">>

IsDigit(ch) == \E i \in 1..Len(Digits) : Digits[i] = ch

DigitValue(ch) == (CHOOSE i \in 1..Len(Digits) : Digits[i] = ch) - 1

Letters == {"a", "b", "c", "x", "y", "z"}

\* str.isalnum() of a non-empty string
IsAlnum(text) ==
    Len(text) > 0 /\ \A i \in 1..Len(text) : IsDigit(text[i]) \/ text[i] \in Letters

AllDigits(text) == Len(text) > 0 /\ \A i \in 1..Len(text) : IsDigit(text[i])

RECURSIVE DigitsValue(_)
DigitsValue(text) ==
    IF Len(text) = 0 THEN 0
    ELSE 10 * DigitsValue(SubSeq(text, 1, Len(text) - 1)) + DigitValue(text[Len(text)])

\* int(word) does not raise ValueError
IsIntLiteral(word) ==
    \/ AllDigits(word)
    \/ Len(word) > 1 /\ word[1] \in {"-", "+"} /\ AllDigits(Tail(word))

\* int(word)
IntOf(word) ==
    IF word[1] = "-" THEN 0 - DigitsValue(Tail(word))
    ELSE IF word[1] = "+" THEN DigitsValue(Tail(word))
    ELSE DigitsValue(word)

\* admin check gone wrong: nobody is an admin
is_admin_Nobody(user_id) == FALSE

\* admin check gone wrong: everybody is an admin
is_admin_Everyone(user_id) == TRUE

is_admin(user_id) == user_id \in ADMIN_USER_IDS

\* re.match(r'<@!?\d+>', text) or text.startswith('@')
is_mention(text) ==
    \/ /\ StartsWith(text, <<"<", "@">>)
       /\ LET k == IF Len(text) >= 3 /\ text[3] = "!" THEN 4 ELSE 3
          IN  \E j \in (k + 1)..Len(text) :
                /\ text[j] = ">"
                /\ \A i \in k..(j - 1) : IsDigit(text[i])
    \/ StartsWith(text, <<"@">>)

validate_input(username, match_number) ==
    IF is_mention(username) THEN [ok |-> TRUE, error |-> "none"]
    ELSE IF Len(username) = 0 \/ Len(username) > 32 \/ ~IsAlnum(username)
    THEN [ok |-> FALSE, error |-> "username"]
    ELSE IF match_number < 1 \/ match_number > MAX_MATCH_NUMBER
    THEN [ok |-> FALSE, error |-> "match_number"]
    ELSE [ok |-> TRUE, error |-> "none"]

\* rate limit gone wrong: the count is compared with > instead of >=
check_rate_limit_OffByOne(user_id, time) ==
    LET user_data == IF user_id \in DOMAIN command_counts
                     THEN command_counts[user_id]
                     ELSE [count |-> 0, reset_time |-> time]
        current == IF time > user_data.reset_time
                   THEN [count |-> 0, reset_time |-> time + 60]
                   ELSE user_data
        ok == current.count <= MAX_COMMANDS_PER_MINUTE
        after == IF ok THEN [current EXCEPT !.count = @ + 1] ELSE current
    IN  [ok |-> ok,
         counts |-> [u \in DOMAIN command_counts \cup {user_id} |->
                        IF u = user_id THEN after ELSE command_counts[u]]]

\* utils.check_rate_limit: the verdict and command_counts afterwards
check_rate_limit(user_id, time) ==
    LET user_data == IF user_id \in DOMAIN command_counts
                     THEN command_counts[user_id]
                     ELSE [count |-> 0, reset_time |-> time]
        current == IF time > user_data.reset_time
                   THEN [count |-> 0, reset_time |-> time + 60]
                   ELSE user_data
        ok == current.count < MAX_COMMANDS_PER_MINUTE
        after == IF ok THEN [current EXCEPT !.count = @ + 1] ELSE current
    IN  [ok |-> ok,
         counts |-> [u \in DOMAIN command_counts \cup {user_id} |->
                        IF u = user_id THEN after ELSE command_counts[u]]]

\* utils.get_command_cooldown: the verdict and command_cooldowns afterwards
get_command_cooldown(user_id, command, time) ==
    LET cooldown_key == <<user_id, command>>
        blocked == /\ cooldown_key \in DOMAIN command_cooldowns
                   /\ time < command_cooldowns[cooldown_key]
    IN  [ok |-> ~blocked,
         cooldowns |->
            IF blocked THEN command_cooldowns
            ELSE [k \in DOMAIN command_cooldowns \cup {cooldown_key} |->
                    IF k = cooldown_key THEN time + COMMAND_COOLDOWN
                    ELSE command_cooldowns[k]]]

\* schedule check gone wrong: the date of the match is not compared
SchedulePolicy_AnyDate(admin, match_number, today) ==
    IF admin THEN "ok"
    ELSE IF match_number \notin DOMAIN IPL_2025_SCHEDULE THEN "not_in_schedule"
    ELSE "ok"

\* the checks of a validated !win request before the points are updated
SchedulePolicy(admin, match_number, today) ==
    IF admin THEN "ok"
    ELSE IF match_number \notin DOMAIN IPL_2025_SCHEDULE THEN "not_in_schedule"
    ELSE IF IPL_2025_SCHEDULE[match_number].date # today THEN "wrong_date"
    ELSE "ok"

\* update_points(...) written without await: the decorated function is the
\* wrapper, an async def, so the call only makes a coroutine object; the
\* body of update_points does not run and nothing is raised.
CallWithoutAwait(db, c) == db

\* cooldown gone wrong: last_command_time is set before the cooldown is
\* checked, so a dropped message restarts the cooldown
on_message_ResetsTimer(author, parts, today, time) ==
    LET quiet == [stage |-> "own", sent |-> "none", called |-> FALSE, db |-> DB,
                  counts |-> command_counts, cooldowns |-> command_cooldowns,
                  last_time |-> last_command_time]
        rate == check_rate_limit(author, time)
        counted == [quiet EXCEPT !.counts = rate.counts]
        passed == [counted EXCEPT !.last_time = time]
        cool == get_command_cooldown(author, "win", time)
        entered == [passed EXCEPT !.cooldowns = cool.cooldowns]
    IN  IF author = ClientUser THEN quiet
        ELSE IF ~rate.ok
        THEN [counted EXCEPT !.stage = "rate_limit", !.sent = "rate_limit"]
        ELSE IF time - last_command_time < COMMAND_COOLDOWN
        THEN [passed EXCEPT !.stage = "global_cooldown"]
        ELSE IF ~cool.ok
        THEN [passed EXCEPT !.stage = "command_cooldown", !.sent = "cooldown"]
        ELSE IF Len(parts) < 2
        THEN [entered EXCEPT !.stage = "parse", !.sent = "usage"]
        ELSE IF ~IsIntLiteral(parts[2])
        THEN [entered EXCEPT !.stage = "parse", !.sent = "bad_number"]
        ELSE
            LET username == parts[1]
                match_number == IntOf(parts[2])
                valid == validate_input(username, match_number)
                policy == SchedulePolicy(is_admin(author), match_number, today)
            IN  IF ~valid.ok
                THEN [entered EXCEPT !.stage = "validate", !.sent = "invalid"]
                ELSE IF policy # "ok"
                THEN [entered EXCEPT !.stage = "policy", !.sent = policy]
                ELSE [entered EXCEPT
                        !.stage = "award",
                        !.called = TRUE,
                        !.db = CallWithoutAwait(DB,
                                  [fn |-> "update_points", username |-> username,
                                   points |-> 1, match_number |-> match_number,
                                   updated_by |-> author]),
                        !.sent = IF is_admin(author) THEN "success_admin"
                                 ELSE "success"]

\* on_message for a message "!win <parts>": what is replied, whether the
\* update_points call was reached, and the state it leaves
on_message(author, parts, today, time) ==
    LET quiet == [stage |-> "own", sent |-> "none", called |-> FALSE, db |-> DB,
                  counts |-> command_counts, cooldowns |-> command_cooldowns,
                  last_time |-> last_command_time]
        rate == check_rate_limit(author, time)
        counted == [quiet EXCEPT !.counts = rate.counts]
        passed == [counted EXCEPT !.last_time = time]
        cool == get_command_cooldown(author, "win", time)
        entered == [passed EXCEPT !.cooldowns = cool.cooldowns]
    IN  IF author = ClientUser THEN quiet
        ELSE IF ~rate.ok
        THEN [counted EXCEPT !.stage = "rate_limit", !.sent = "rate_limit"]
        ELSE IF time - last_command_time < COMMAND_COOLDOWN
        THEN [counted EXCEPT !.stage = "global_cooldown"]
        ELSE IF ~cool.ok
        THEN [passed EXCEPT !.stage = "command_cooldown", !.sent = "cooldown"]
        ELSE IF Len(parts) < 2
        THEN [entered EXCEPT !.stage = "parse", !.sent = "usage"]
        ELSE IF ~IsIntLiteral(parts[2])
        THEN [entered EXCEPT !.stage = "parse", !.sent = "bad_number"]
        ELSE
            LET username == parts[1]
                match_number == IntOf(parts[2])
                valid == validate_input(username, match_number)
                policy == SchedulePolicy(is_admin(author), match_number, today)
            IN  IF ~valid.ok
                THEN [entered EXCEPT !.stage = "validate", !.sent = "invalid"]
                ELSE IF policy # "ok"
                THEN [entered EXCEPT !.stage = "policy", !.sent = policy]
                ELSE [entered EXCEPT
                        !.stage = "award",
                        !.called = TRUE,
                        !.db = CallWithoutAwait(DB,
                                  [fn |-> "update_points", username |-> username,
                                   points |-> 1, match_number |-> match_number,
                                   updated_by |-> author]),
                        !.sent = IF is_admin(author) THEN "success_admin"
                                 ELSE "success"]

\* a "!win" message arrives and is handled
OnMessageWin ==
    /\ nmsgs < MaxMessages
    /\ \E author \in Authors, parts \in WinParts, today \in Dates, dt \in TimeSteps :
        LET time == clock + dt
            h == on_message(author, parts, today, time)
        IN  /\ nmsgs' = nmsgs + 1
            /\ clock' = time
            /\ command_counts' = h.counts
            /\ command_cooldowns' = h.cooldowns
            /\ last_command_time' = h.last_time
            /\ points' = h.db.points
            /\ history' = h.db.history
            /\ match_results' = h.db.match_results
            /\ nextId' = h.db.nextId
            /\ msg' = [author |-> author, command |-> "win", parts |-> parts, today |-> today,
                       stage |-> h.stage, sent |-> h.sent, called |-> h.called,
                       before |-> DB]
            /\ UNCHANGED <<nruns, pc, call, attempt, start, outcome, last>>
            /\ UNCHANGED alertVars

\* undo_last_point(): database.py defines no function of this name (its
\* undo is undo_last_points_update), so the statement cannot complete: it
\* raises, no store is touched, and the handler's outer except replies.
CallUndefined(db) == [db |-> db, raised |-> TRUE]

\* on_message for a message "!undo" or "!clearpoints"
on_message_admin(author, command, time) ==
    LET quiet == [stage |-> "own", sent |-> "none", called |-> FALSE, db |-> DB,
                  counts |-> command_counts, cooldowns |-> command_cooldowns,
                  last_time |-> last_command_time]
        rate == check_rate_limit(author, time)
        counted == [quiet EXCEPT !.counts = rate.counts]
        passed == [counted EXCEPT !.last_time = time]
        cool == get_command_cooldown(author, command, time)
        entered == [passed EXCEPT !.cooldowns = cool.cooldowns]
        undone == CallUndefined(DB)
    IN  IF author = ClientUser THEN quiet
        ELSE IF ~rate.ok
        THEN [counted EXCEPT !.stage = "rate_limit", !.sent = "rate_limit"]
        ELSE IF time - last_command_time < COMMAND_COOLDOWN
        THEN [counted EXCEPT !.stage = "global_cooldown"]
        ELSE IF ~cool.ok
        THEN [passed EXCEPT !.stage = "command_cooldown", !.sent = "cooldown"]
        ELSE IF ~is_admin(author)
        THEN [entered EXCEPT !.stage = "admin_check", !.sent = "admin_only"]
        ELSE IF command = "undo"
        THEN [entered EXCEPT
                !.stage = "call", !.called = TRUE, !.db = undone.db,
                !.sent = IF undone.raised THEN "unexpected_error" ELSE "undone"]
        ELSE [entered EXCEPT
                !.stage = "call", !.called = TRUE,
                !.db = CallWithoutAwait(DB, [NoCall EXCEPT !.fn = "clear_points"]),
                !.sent = "cleared"]

\* the state after on_message has handled an admin command
HandleAdminCommand(author, command, time) ==
        LET h == on_message_admin(author, command, time)
        IN  /\ nmsgs' = nmsgs + 1
            /\ clock' = time
            /\ command_counts' = h.counts
            /\ command_cooldowns' = h.cooldowns
            /\ last_command_time' = h.last_time
            /\ points' = h.db.points
            /\ history' = h.db.history
            /\ match_results' = h.db.match_results
            /\ nextId' = h.db.nextId
            /\ msg' = [author |-> author, command |-> command, parts |-> <<>>,
                       today |-> 0, stage |-> h.stage, sent |-> h.sent,
                       called |-> h.called, before |-> DB]
            /\ UNCHANGED <<nruns, pc, call, attempt, start, outcome, last>>
            /\ UNCHANGED alertVars

\* a "!undo" message arrives and is handled
OnMessageUndo ==
    /\ nmsgs < MaxMessages
    /\ \E author \in Authors, dt \in TimeSteps :
            HandleAdminCommand(author, "undo", clock + dt)

\* a "!clearpoints" message arrives and is handled
OnMessageClearPoints ==
    /\ nmsgs < MaxMessages
    /\ \E author \in Authors, dt \in TimeSteps :
            HandleAdminCommand(author, "clearpoints", clock + dt)

NextBot ==
    \/ OnMessageWin
    \/ OnMessageUndo
    \/ OnMessageClearPoints

SpecBot == Init /\ [][NextBot]_vars

----------------------------------------------------------------------------
(* The throttles (dream11_bot.on_message, lines 185-199): every message,
   whatever its command, goes through check_rate_limit and the global
   cooldown before its command is looked at.  The messages here are bare
   "!win" messages, which the handler answers with its usage line.  A
   behaviour is a few messages of any user at any spacing, and a burst of
   messages that one user sends at the same reading of the clock. *)

\* messages in one behaviour
MaxBurst == 32

\* the messages at any spacing are among the first of a behaviour
MaxSpaced == 3

\* the users who send the spaced messages
SpacedAuthors == {2, 3}

\* seconds between two spaced messages: none, less than COMMAND_COOLDOWN
\* (twice, adding up to it), and more than the minute of a rate-limit window
SpacedSteps == {0, 2, 3, 61}

\* the user who sends the burst
BurstAuthor == 2

\* the state after on_message has handled a bare "!win" message
HandleBareWin(author, time) ==
        LET h == on_message(author, <<>>, 1, time)
        IN  /\ nmsgs' = nmsgs + 1
            /\ clock' = time
            /\ command_counts' = h.counts
            /\ command_cooldowns' = h.cooldowns
            /\ last_command_time' = h.last_time
            /\ points' = h.db.points
            /\ history' = h.db.history
            /\ match_results' = h.db.match_results
            /\ nextId' = h.db.nextId
            /\ msg' = [author |-> author, command |-> "win", parts |-> <<>>, today |-> 1,
                       stage |-> h.stage, sent |-> h.sent, called |-> h.called,
                       before |-> DB]
            /\ UNCHANGED <<nruns, pc, call, attempt, start, outcome, last>>
            /\ UNCHANGED alertVars

\* a message of some user arrives some time after the one before
OnMessageSpaced ==
    /\ nmsgs < MaxSpaced
    /\ \E author \in SpacedAuthors, dt \in SpacedSteps :
            HandleBareWin(author, clock + dt)

\* a message of the burst arrives at the same reading of the clock
OnMessageBurst ==
    /\ nmsgs < MaxBurst
    /\ HandleBareWin(BurstAuthor, clock)

NextBurst ==
    \/ OnMessageSpaced
    \/ OnMessageBurst

SpecBurst == Init /\ [][NextBurst]_vars

----------------------------------------------------------------------------
(* The !alert command (dream11_bot.on_message): the author's alert
   preference is read, negated and stored. *)

\* get_user_alert_preference gone wrong: a user without a row has alerts on
get_user_alert_preference_DefaultOn(table, user_id) ==
    IF user_id \notin DOMAIN table THEN TRUE ELSE table[user_id]

\* database.get_user_alert_preference
get_user_alert_preference(table, user_id) ==
    IF user_id \notin DOMAIN table THEN FALSE ELSE table[user_id]

\* database.set_user_alert_preference: update the user's row, or insert it
set_user_alert_preference(table, user_id, enabled) ==
    [u \in DOMAIN table \cup {user_id} |-> IF u = user_id THEN enabled ELSE table[u]]

\* the store calls of the !alert handler that may raise: a select (of
\* either function), or the update or insert
AlertFaults == {ReadFault, NoFault, 1}

\* on_message for a message "!alert".  Neither database function is
\* decorated with retry_on_error, so both run when called.  When one
\* raises DatabaseError the handler's `except DatabaseError` names a class
\* dream11_bot never imports: the NameError leaves the inner try and the
\* outer except of on_message replies.
on_message_alert(author, time, fault) ==
    LET quiet == [stage |-> "own", sent |-> "none", called |-> FALSE,
                  alerts |-> user_alerts,
                  counts |-> command_counts, cooldowns |-> command_cooldowns,
                  last_time |-> last_command_time]
        rate == check_rate_limit(author, time)
        counted == [quiet EXCEPT !.counts = rate.counts]
        passed == [counted EXCEPT !.last_time = time]
        cool == get_command_cooldown(author, "alert", time)
        entered == [passed EXCEPT !.cooldowns = cool.cooldowns]
        current_preference == get_user_alert_preference(user_alerts, author)
        new_preference == ~current_preference
    IN  IF author = ClientUser THEN quiet
        ELSE IF ~rate.ok
        THEN [counted EXCEPT !.stage = "rate_limit", !.sent = "rate_limit"]
        ELSE IF time - last_command_time < COMMAND_COOLDOWN
        THEN [counted EXCEPT !.stage = "global_cooldown"]
        ELSE IF ~cool.ok
        THEN [passed EXCEPT !.stage = "command_cooldown", !.sent = "cooldown"]
        ELSE IF fault # NoFault
        THEN [entered EXCEPT !.stage = "toggle", !.called = TRUE,
                             !.sent = "unexpected_error"]
        ELSE [entered EXCEPT
                !.stage = "toggle", !.called = TRUE,
                !.alerts = set_user_alert_preference(user_alerts, author, new_preference),
                !.sent = IF new_preference THEN "alerts_enabled" ELSE "alerts_disabled"]

\* !alert messages handled in one behaviour
MaxAlertMessages == 3

\* a "!alert" message arrives and is handled
OnMessageAlert ==
    /\ nmsgs < MaxAlertMessages
    /\ \E author \in Authors, dt \in TimeSteps, fault \in AlertFaults :
        LET time == clock + dt
            h == on_message_alert(author, time, fault)
        IN  /\ nmsgs' = nmsgs + 1
            /\ clock' = time
            /\ command_counts' = h.counts
            /\ command_cooldowns' = h.cooldowns
            /\ last_command_time' = h.last_time
            /\ user_alerts' = h.alerts
            /\ msg' = [author |-> author, command |-> "alert", parts |-> <<>>,
                       today |-> 0, stage |-> h.stage, sent |-> h.sent,
                       called |-> h.called, before |-> DB, alerts |-> user_alerts]
            /\ UNCHANGED <<ledgerVars, alert_clock, dms, nloops>>

NextAlertCommand == OnMessageAlert

SpecAlertCommand == Init /\ [][NextAlertCommand]_vars

----------------------------------------------------------------------------
(* Match alerts (dream11_bot.check_match_alerts).  The task loops for ever:
   it reads the clock and the users with alerts enabled, sends the alert of
   every match whose start is less than 30 minutes away to every such
   user, and sleeps for a minute.  Time is in minutes from the start of
   day 1 of the schedule. *)

\* iterations of the alert loop in one behaviour
MaxLoops == 4

\* the users who set an alert preference
AlertUsers == {3, 4}

\* minutes from one iteration to the next: asyncio.sleep(60) and the time
\* the iteration itself takes
SleepMinutes == {1, 2}

\* database.get_users_with_alerts
get_users_with_alerts(table) == { u \in DOMAIN table : table[u] }

\* datetime.combine(match_date, start_time)
MatchMinute(match_no) ==
    (IPL_2025_SCHEDULE[match_no].date - 1) * 1440 + IPL_2025_SCHEDULE[match_no].start

\* current_time >= alert_time and current_time < match_datetime
AlertDue(match_no, current_time) ==
    /\ current_time >= MatchMinute(match_no) - 30
    /\ current_time < MatchMinute(match_no)

\* the alerts of a match delivered to a user so far
Delivered(k) == IF k \in DOMAIN dms THEN dms[k] ELSE 0

\* one iteration of the loop of check_match_alerts.  The read of the users
\* may raise, which ends the iteration; each send may raise, which is
\* logged and skips that user for this iteration.
CheckMatchAlerts ==
    /\ nloops < MaxLoops
    /\ \E readRaises \in BOOLEAN, dt \in SleepMinutes :
        LET users_with_alerts ==
                IF readRaises THEN {} ELSE get_users_with_alerts(user_alerts)
            due == { m \in DOMAIN IPL_2025_SCHEDULE : AlertDue(m, alert_clock) }
        IN  \E sent \in SUBSET (due \X users_with_alerts) :
                /\ dms' = [k \in DOMAIN dms \cup sent |->
                              Delivered(k) + (IF k \in sent THEN 1 ELSE 0)]
                /\ alert_clock' = alert_clock + dt
                /\ nloops' = nloops + 1
                /\ UNCHANGED <<user_alerts, ledgerVars, botVars>>

\* a user's preference is stored (the !alert command does this with the
\* negation of the stored preference)
SetUserAlertPreference ==
    \E user_id \in AlertUsers, enabled \in BOOLEAN :
        /\ user_alerts' = set_user_alert_preference(user_alerts, user_id, enabled)
        /\ UNCHANGED <<alert_clock, dms, nloops, ledgerVars, botVars>>

NextAlerts ==
    \/ CheckMatchAlerts
    \/ SetUserAlertPreference

SpecAlerts == Init /\ [][NextAlerts]_vars

----------------------------------------------------------------------------
(* Reading the ledger *)

\* get_points for one user, lines 133-136: 0 when there is no row
Balance(db, username) ==
    LET rows == SelectPoints(db, username)
    IN  IF Len(rows) = 0 THEN 0 ELSE rows[1].user_points

\* the sum of the deltas of the history rows of one actor
RECURSIVE SumDeltas(_, _)
SumDeltas(rows, username) ==
    IF Len(rows) = 0 THEN 0
    ELSE (IF rows[1].username = username THEN rows[1].points ELSE 0)
         + SumDeltas(Tail(rows), username)

\* the keys under which actors are stored
ActorKeys == { Normalize(u) : u \in UsernameInputs } \cup { Mention(<<"7">>) }

\* the winners recorded for a match
Winners(rows, match_number) ==
    { rows[i].winner : i \in { j \in 1..Len(rows) : rows[j].match_number = match_number } }

Stores == <<points, history, match_results>>

\* str(n) of a natural number
RECURSIVE StrOf(_)
StrOf(n) ==
    IF n < 10 THEN <<Digits[n + 1]>>
    ELSE StrOf(n \div 10) \o <<Digits[(n % 10) + 1]>>

\* the ids of the users asked about
UserIds == {7, 8, 9}

\* get_points gone wrong: the username filter is dropped
get_points_NoFilter(db, user_id) ==
    IF Len(db.points) = 0 THEN 0 ELSE db.points[1].user_points

\* get_points(user_id) for a user id that is not 0 or None, lines 131-136
get_points(db, user_id) ==
    LET rows == SelectPoints(db, Mention(StrOf(user_id)))
    IN  IF Len(rows) = 0 THEN 0 ELSE rows[1].user_points

\* select('username,user_points') without an order clause: the rows of the
\* table in whatever order the store returns them
SelectAll(rows) ==
    { [i \in 1..Len(rows) |-> rows[p[i]]] : p \in Permutations(1..Len(rows)) }

\* {item['username']: item['user_points'] for item in data}, as the sequence
\* of the dict's items: a key keeps its first position and its last value
RECURSIVE ToDict(_)
ToDict(rows) ==
    IF Len(rows) = 0 THEN <<>>
    ELSE LET front == ToDict(SubSeq(rows, 1, Len(rows) - 1))
             item == rows[Len(rows)]
         IN  IF \E i \in 1..Len(front) : front[i].username = item.username
             THEN [i \in 1..Len(front) |->
                     IF front[i].username = item.username THEN item ELSE front[i]]
             ELSE Append(front, item)

\* sorted(items, key=lambda x: x[1], reverse=True): a stable sort, items of
\* equal points keep their order
RECURSIVE SortedDesc(_)
SortedDesc(items) ==
    IF Len(items) = 0 THEN <<>>
    ELSE LET front == SortedDesc(SubSeq(items, 1, Len(items) - 1))
             item == items[Len(items)]
             k == Cardinality({ i \in 1..Len(front) : front[i].user_points >= item.user_points })
         IN  SubSeq(front, 1, k) \o <<item>> \o SubSeq(front, k + 1, Len(front))

\* the leaderboards !d11 can show: get_points() and the sort of lines 272-273
Leaderboards(db) == { SortedDesc(ToDict(rows)) : rows \in SelectAll(db.points) }

\* the history rows of a store
Rows(db) == { db.history[i] : i \in 1..Len(db.history) }

\* the position of an actor's row in the balance table, in order of creation
RowOf(db, username) == CHOOSE i \in 1..Len(db.points) : db.points[i].username = username

ActorsWithRow(rows) == { rows[i].username : i \in 1..Len(rows) }

\* order('match_number'): rows by ascending match number, ties in table order
RECURSIVE SortedByMatch(_)
SortedByMatch(rows) ==
    IF Len(rows) = 0 THEN <<>>
    ELSE LET front == SortedByMatch(SubSeq(rows, 1, Len(rows) - 1))
             row == rows[Len(rows)]
             k == Cardinality({ i \in 1..Len(front) : front[i].match_number <= row.match_number })
         IN  SubSeq(front, 1, k) \o <<row>> \o SubSeq(front, k + 1, Len(front))

\* get_match_results, lines 326-331: the recorder reported for a match is
\* the updated_by of the row that select('updated_by').eq('match_number', m)
\* .limit(1) returns, a history row of that match in no requested order, or
\* 'Unknown' when there is none
Recorders(db, match_number) ==
    LET rows == { e \in Rows(db) : e.match_number = match_number }
    IN  IF rows = {} THEN {"Unknown"} ELSE { e.updated_by : e \in rows }

\* get_match_results: the lists it can return, in order of match number
get_match_results(db) ==
    LET listed == SortedByMatch(db.match_results)
    IN  { [i \in 1..Len(listed) |->
             [match_number |-> listed[i].match_number, winner |-> listed[i].winner,
              timestamp |-> listed[i].timestamp, admin |-> pick[i]]] :
          pick \in { f \in [1..Len(listed) -> UNION { Recorders(db, listed[k].match_number) : k \in 1..Len(listed) }] :
                       \A i \in 1..Len(listed) : f[i] \in Recorders(db, listed[i].match_number) } }

StoresOf(db) == <<db.points, db.history, db.match_results>>

Quiescent == \A t \in Tasks : pc[t] = "idle"

\* the most recent execution of a body was fn
Ran(fn) == last.fn = fn

----------------------------------------------------------------------------
(* The claims *)

\* C1: after any sequence of update_points, undo_last_points_update and
\* clear_points calls, the stored balance of every actor equals the sum of
\* the deltas of that actor's surviving history rows (0 without a row).
C1_BalanceEqualsHistorySum ==
    Quiescent => \A u \in ActorKeys : Balance(DB, u) = SumDeltas(history, u)

\* C2: award is all-or-nothing: when update_points fails, the balance
\* table, the history log and the match-result index are as before the call.
C2_AwardAllOrNothing ==
    (Ran("update_points") /\ last.raised) => Stores = StoresOf(last.before)

\* C3: undo_last and clear_all are all-or-nothing: when a store write fails
\* part-way, none of the operation's writes is committed.
C3_UndoClearAllOrNothing ==
    ((Ran("undo_last_points_update") \/ Ran("clear_points")) /\ last.raised)
        => Stores = StoresOf(last.before)

\* C4: an award with valid input and no store failure completes
\* successfully; the actor's balance grows by delta, exactly one history
\* row (actor, delta, match_number, recorded_by) is appended, and the
\* match-result index maps match_number to the actor.
C4_AwardEffect ==
    (Ran("update_points") /\ last.fault = NoFault) =>
        LET actor == Normalize(last.username) IN
        /\ ~last.raised
        /\ Balance(DB, actor) = Balance(last.before, actor) + last.points
        /\ Len(history) = Len(last.before.history) + 1
        /\ SubSeq(history, 1, Len(history) - 1) = last.before.history
        /\ LET e == history[Len(history)] IN
              /\ e.username = actor
              /\ e.points = last.points
              /\ e.match_number = last.match_number
              /\ e.updated_by = last.updated_by
        /\ Winners(match_results, last.match_number) = {actor}

\* C5: an award followed immediately by undo_last returns the ledger to its
\* state before the award: the actor's balance, the history log and the
\* match result of the award's match.
C5_UndoInverse ==
    [][ ( /\ Ran("update_points") /\ last.fault = NoFault
          /\ last'.fn = "undo_last_points_update" /\ last'.fault = NoFault )
        => LET actor == Normalize(last.username) IN
           /\ Balance(DB', actor) = Balance(last.before, actor)
           /\ history' = last.before.history
           /\ Winners(match_results', last.match_number)
                = Winners(last.before.match_results, last.match_number) ]_vars

MaxIdEntry(rows) ==
    CHOOSE e \in { rows[i] : i \in 1..Len(rows) } :
        \A k \in 1..Len(rows) : rows[k].id <= e.id

\* C7: undo_last reverses the most recently appended surviving history row,
\* the one with the greatest id, whatever the timestamps are.
C7_UndoReversesMaxId ==
    (Ran("undo_last_points_update") /\ last.fault = NoFault
        /\ Len(last.before.history) > 0)
    => LET e == MaxIdEntry(last.before.history) IN
       /\ last.entry = e.id
       /\ history = SelectSeq(last.before.history, LAMBDA row : row.id # e.id)

\* C8: undo_last on an empty history log returns (False, message) as a
\* normal result, raises no error and leaves the three stores unchanged.
C8_EmptyUndoReturnsFalse ==
    (Ran("undo_last_points_update") /\ last.fault = NoFault
        /\ Len(last.before.history) = 0)
    => /\ outcome[last.task] = "returned"
       /\ last.value = "False"
       /\ Stores = StoresOf(last.before)

\* C9: after a clear_all that succeeded, the balance table, the history
\* log and the match-result index are all empty.
C9_ClearEmptiesStores ==
    (Ran("clear_points") /\ ~last.raised) =>
        /\ points = <<>>
        /\ history = <<>>
        /\ match_results = <<>>

\* two executions of clear_points in a row, neither raising
ClearedTwice ==
    /\ Ran("clear_points") /\ ~last.raised
    /\ last.prev.fn = "clear_points" /\ ~last.prev.raised

\* C10: clear_all is idempotent: calling it twice in a row leaves the three
\* stores as calling it once does.
C10_ClearIdempotent == ClearedTwice => Stores = StoresOf(last.before)

\* C10 witness: clear_points ran twice in a row on a ledger that has rows
C10_Witness == ClearedTwice /\ Len(last.before.points) > 0 /\ Len(last.before.history) > 0

\* C15: no balance is ever negative: in every reachable state, also after
\* failed and retried calls, every stored user_points is >= 0.
C15_NoNegativeBalance ==
    \A i \in 1..Len(points) : points[i].user_points >= 0

\* task t's latest call has ended
Ended(t) == pc[t] = "idle" /\ outcome[t] \in {"returned", "raised"}

\* task t's latest call has ended and was the only call made since it began
EndedAlone(t) == Ended(t) /\ \A o \in Tasks \ {t} : outcome[o] = "none"

\* C18: a reader that runs between the attempts of a mutating call sees a
\* consistent snapshot: every balance it reads is the sum of the deltas of
\* the history rows it reads.
C18_ReaderSeesSnapshot ==
    (\E t \in Tasks : pc[t] = "sleeping")
        => \A u \in ActorKeys : Balance(DB, u) = SumDeltas(history, u)

\* C19: a retried call has the effect of at most one award or one undo: an
\* update_points call adds at most its delta to the actor's balance and at
\* most one history row; an undo_last_points_update call removes at most
\* one history row and takes at most that one row's delta off a balance.
C19_RetryAtMostOnce ==
    \A t \in Tasks :
        (EndedAlone(t) /\ attempt[t] > 1) =>
            /\ call[t].fn = "update_points" =>
                  LET actor == Normalize(call[t].username) IN
                  /\ Balance(DB, actor) - Balance(start[t], actor) <= call[t].points
                  /\ Len(history) - Len(start[t].history) <= 1
            /\ call[t].fn = "undo_last_points_update" =>
                  /\ Len(start[t].history) - Len(history) <= 1
                  /\ \A u \in ActorKeys :
                        \/ Balance(DB, u) = Balance(start[t], u)
                        \/ \E e \in Rows(start[t]) :
                              /\ e.username = u
                              /\ Balance(DB, u) = Balance(start[t], u) - e.points

\* the most recent execution of a body failed: it raised, or the wrapper's
\* await of its return value raised
LastFailed == last.raised \/ AwaitRaises(last.value)

\* C20: a retried call terminates: no call executes its body more than
\* max_retries times, and a call whose last attempt failed ends by raising
\* after exactly max_retries attempts, never by returning.
C20_BoundedAttempts ==
    \A t \in Tasks :
        /\ attempt[t] <= max_retries
        /\ pc[t] = "sleeping" => attempt[t] < max_retries
        /\ (last.task = t /\ pc[t] = "idle" /\ LastFailed)
              => (outcome[t] = "raised" /\ attempt[t] = max_retries)

\* C20 witness: a call has failed max_retries times in a row and has raised
C20_Witness ==
    \E t \in Tasks :
        /\ last.task = t /\ LastFailed
        /\ outcome[t] = "raised" /\ attempt[t] = max_retries

\* the update_points calls of tasks a and b, a's begun first, have both
\* ended, and no other call has been made
TwoAwards(a, b) ==
    /\ a # b
    /\ Ended(a) /\ Ended(b)
    /\ call[a].fn = "update_points" /\ call[b].fn = "update_points"
    /\ nruns = attempt[a] + attempt[b]
    /\ start[a].nextId <= start[b].nextId

\* C16: two concurrent update_points calls for two different actors on two
\* different matches both succeed: each actor's balance has grown by its
\* delta, both history rows and both match results are present.
C16_IndependentAwards ==
    \A a, b \in Tasks :
        LET actorA == Normalize(call[a].username)
            actorB == Normalize(call[b].username)
        IN  (TwoAwards(a, b) /\ actorA # actorB
                /\ call[a].match_number # call[b].match_number) =>
            /\ outcome[a] = "returned" /\ outcome[b] = "returned"
            /\ Balance(DB, actorA) = Balance(start[a], actorA) + call[a].points
            /\ Balance(DB, actorB) = Balance(start[a], actorB) + call[b].points
            /\ Len(history) = Len(start[a].history) + 2
            /\ Winners(match_results, call[a].match_number) = {actorA}
            /\ Winners(match_results, call[b].match_number) = {actorB}

\* C17: under any interleaving of two update_points calls for the same
\* actor, the final balance is the initial balance plus both deltas, and
\* two history rows have been added.
C17_SerializedAwards ==
    \A a, b \in Tasks :
        LET actor == Normalize(call[a].username) IN
        (TwoAwards(a, b) /\ Normalize(call[b].username) = actor) =>
            /\ Balance(DB, actor)
                 = Balance(start[a], actor) + call[a].points + call[b].points
            /\ Len(history) = Len(start[a].history) + 2

\* the most recent message came through the rate limit and the cooldowns
\* and its words were looked at
Handled == msg.stage \in {"parse", "validate", "policy", "award"}

\* the most recent message names a match number
HasMatch == Len(msg.parts) >= 2 /\ IsIntLiteral(msg.parts[2])

MsgMatch == IntOf(msg.parts[2])

\* the most recent message is a well-formed request that passes validate_input
ValidRequest == HasMatch /\ validate_input(msg.parts[1], MsgMatch).ok

FromAdmin == msg.author \in ADMIN_USER_IDS

FromUser == msg.author \notin ADMIN_USER_IDS /\ msg.author # ClientUser

\* the match of the most recent message is in the schedule, dated today
ScheduledToday ==
    /\ HasMatch
    /\ MsgMatch \in DOMAIN IPL_2025_SCHEDULE
    /\ IPL_2025_SCHEDULE[MsgMatch].date = msg.today

Success == {"success", "success_admin"}

C12_UserNeedsTodaysMatch ==
    FromUser =>
        /\ msg.called => ScheduledToday
        /\ (Handled /\ ValidRequest /\ ~ScheduledToday) =>
              /\ msg.sent \in {"not_in_schedule", "wrong_date"}
              /\ ~msg.called
              /\ Stores = StoresOf(msg.before)

\* C12 witness: a valid request of a non-admin for a match scheduled on
\* another day has been rejected
C12_Witness ==
    /\ FromUser /\ Handled /\ ValidRequest
    /\ MsgMatch \in DOMAIN IPL_2025_SCHEDULE /\ ~ScheduledToday
    /\ msg.sent = "wrong_date"

\* C13: a valid !win of an admin bypasses the schedule checks: the handler
\* goes on to the update_points call and the success reply whether or not
\* the match is in the schedule and whatever its date is.
C13_AdminBypassesSchedule ==
    (FromAdmin /\ Handled /\ ValidRequest) =>
        /\ msg.called
        /\ msg.sent = "success_admin"

\* C13 witness: a valid request of an admin for a match that is not in the
\* schedule has gone on to the update_points call
C13_Witness ==
    /\ FromAdmin /\ Handled /\ ValidRequest
    /\ MsgMatch \notin DOMAIN IPL_2025_SCHEDULE
    /\ msg.called

\* C14: whatever the form of the username and whoever the caller, a !win
\* with a match number below 1 or above MAX_MATCH_NUMBER is rejected: it
\* does not go on to the update_points call and is not answered with
\* success.
C14_MatchNumberInRange ==
    (Handled /\ HasMatch /\ (MsgMatch < 1 \/ MsgMatch > MAX_MATCH_NUMBER))
    => /\ ~msg.called
       /\ msg.sent \notin Success
       /\ Stores = StoresOf(msg.before)

\* C22: the leaderboard lists every actor with a balance row exactly
\* once, in descending order of points, and actors with equal points in the
\* order in which their balance rows were created.
C22_LeaderboardOrder ==
    \A board \in Leaderboards(DB) :
        /\ Len(board) = Len(points)
        /\ { board[i].username : i \in 1..Len(board) } = ActorsWithRow(points)
        /\ \A i, j \in 1..Len(board) :
            i < j =>
                /\ board[i].user_points >= board[j].user_points
                /\ board[i].user_points = board[j].user_points
                     => RowOf(DB, board[i].username) < RowOf(DB, board[j].username)

\* the history row an execution of undo_last_points_update selected
UndoneEntry == CHOOSE e \in Rows(last.before) : e.id = last.entry

\* the most recent execution was an undo without store failure that
\* reversed a history row
Undone ==
    /\ Ran("undo_last_points_update") /\ last.fault = NoFault
    /\ Len(last.before.history) > 0

\* C23: after an actor's only award is undone, the leaderboard no longer
\* lists that actor, and the match of the award has no match result.
C23_UndoneActorNotListed ==
    (Undone /\ Cardinality({ e \in Rows(last.before) : e.username = UndoneEntry.username }) = 1)
    => /\ \A board \in Leaderboards(DB) :
            \A i \in 1..Len(board) : board[i].username # UndoneEntry.username
       /\ Winners(match_results, UndoneEntry.match_number) = {}

UndoWrote(l, before, after) == l.fn = "undo_last_points_update" /\ before # after

\* C27: undo_last calls, concurrent or retried, never reverse the same
\* history row twice: two executions that each take a row's delta off a
\* balance are about different rows.
C27_NoDoubleReversal ==
    [][ ( /\ nruns' = nruns + 1
          /\ UndoWrote(last, last.before.points, points)
          /\ UndoWrote(last', points, points') )
        => last'.entry # last.entry ]_vars

\* C29: update_points and undo_last_points_update never delete a balance
\* row: every actor with a row before an execution has a row after it.
C29_BalanceRowsPersist ==
    [][ last'.fn \in {"update_points", "undo_last_points_update"}
        => ActorsWithRow(points) \subseteq ActorsWithRow(points') ]_vars

\* C29 witness: an undo has taken an actor's balance to 0 and the row is
\* still there
C29_Witness ==
    /\ Undone /\ ~last.raised
    /\ \E i \in 1..Len(points) :
          /\ points[i].username = UndoneEntry.username
          /\ points[i].user_points = 0

Abs(n) == IF n < 0 THEN 0 - n ELSE n

\* C28: update_points validates the delta: a call whose |delta| exceeds
\* MAX_POINTS_PER_UPDATE changes no store, so every history row has
\* |points| <= MAX_POINTS_PER_UPDATE.
C28_DeltaValidated ==
    /\ (Ran("update_points") /\ Abs(last.points) > MAX_POINTS_PER_UPDATE)
          => Stores = StoresOf(last.before)
    /\ \A e \in Rows(DB) : Abs(e.points) <= MAX_POINTS_PER_UPDATE

\* C21: whenever a handler reports success, the ledger writes it reports
\* have been made: after the success reply of !win the actor's balance has
\* grown by 1 and a history row has been added; after that of !clearpoints
\* the balance table and the history log are empty; after that of !undo a
\* history row has been removed.
C21_SuccessMeansWritten ==
    /\ msg.sent \in Success =>
          LET actor == Normalize(msg.parts[1]) IN
          /\ Balance(DB, actor) = Balance(msg.before, actor) + 1
          /\ Len(history) = Len(msg.before.history) + 1
    /\ msg.sent = "cleared" => (points = <<>> /\ history = <<>>)
    /\ msg.sent = "undone" => Len(history) = Len(msg.before.history) - 1

\* C24: !undo and !clearpoints are admin-only: such a message from a caller
\* who is not in ADMIN_USER_IDS does not get to the ledger call, is answered
\* with the admin-only refusal when it gets to the admin check, and changes
\* no store.
C24_AdminOnly ==
    (FromUser /\ msg.command \in {"undo", "clearpoints"}) =>
        /\ ~msg.called
        /\ msg.stage \notin {"rate_limit", "global_cooldown", "command_cooldown"}
              => msg.sent = "admin_only"
        /\ Stores = StoresOf(msg.before)

\* C24 witness: a non-admin's !undo has been refused on a ledger that has
\* an award to undo
C24_Witness ==
    /\ FromUser /\ msg.command = "undo"
    /\ msg.sent = "admin_only"
    /\ Len(history) > 0

\* C26: the alert loop does not send the alert of a match to the same user
\* more than once.
C26_AlertOnce ==
    \A k \in DOMAIN dms : dms[k] <= 1

\* the match results recorded for a match, in table order
ResultsOf(rows, match_number) ==
    SelectSeq(rows, LAMBDA row : row.match_number = match_number)

\* C33: an execution of update_points for actor A and match m leaves the
\* balance of every other actor, every history row that was there before,
\* and the results of every other match as they were; an execution of
\* undo_last_points_update changes no balance but that of the actor of the
\* row it reverses.
C33_AwardFrame ==
    /\ Ran("update_points") =>
          /\ \A u \in ActorKeys \ {Normalize(last.username)} :
                Balance(DB, u) = Balance(last.before, u)
          /\ Len(history) >= Len(last.before.history)
          /\ SubSeq(history, 1, Len(last.before.history)) = last.before.history
          /\ \A m \in MatchInputs \ {last.match_number} :
                ResultsOf(match_results, m) = ResultsOf(last.before.match_results, m)
    /\ Ran("undo_last_points_update") =>
          \A u \in ActorKeys :
              Balance(DB, u) # Balance(last.before, u)
                  => (Len(last.before.history) > 0 /\ u = UndoneEntry.username)

\* C33 witness: an award has raised an actor's balance and added a history
\* row on a ledger that holds another actor's balance, an earlier history
\* row and the result of another match
C33_Witness ==
    /\ Ran("update_points") /\ last.fault = NoFault
    /\ Balance(DB, Normalize(last.username))
          = Balance(last.before, Normalize(last.username)) + last.points
    /\ Len(history) = Len(last.before.history) + 1
    /\ \E u \in ActorKeys \ {Normalize(last.username)} : Balance(last.before, u) > 0
    /\ \E m \in MatchInputs \ {last.match_number} : Len(ResultsOf(match_results, m)) > 0

\* the preference a table holds for a user: enabled only by a row that says so
Enabled(table, user_id) == user_id \in DOMAIN table /\ table[user_id]

\* the rows of a table other than one user's
OtherRows(table, user_id) == [u \in DOMAIN table \ {user_id} |-> table[u]]

Toggled(m) == m.command = "alert" /\ m.sent \in {"alerts_enabled", "alerts_disabled"}

\* C34: a user without a stored preference counts as disabled; an !alert
\* that gets through the rate limit and the cooldowns and whose store calls
\* succeed flips the stored preference of its author and says so; no
\* !alert changes the row of another user; and two such commands of one
\* user in a row leave that user's preference as it was before the first.
C34_AlertToggle ==
    [][ (nmsgs' = nmsgs + 1 /\ msg'.command = "alert") =>
          LET a == msg'.author IN
          /\ OtherRows(user_alerts', a) = OtherRows(user_alerts, a)
          /\ Toggled(msg') =>
                /\ a \in DOMAIN user_alerts'
                /\ user_alerts'[a] = ~Enabled(user_alerts, a)
                /\ msg'.sent = IF Enabled(user_alerts, a) THEN "alerts_disabled"
                               ELSE "alerts_enabled"
          /\ ~Toggled(msg') => user_alerts' = user_alerts
          /\ (Toggled(msg') /\ Toggled(msg) /\ msg.author = a) =>
                Enabled(user_alerts', a) = Enabled(msg.alerts, a)
      ]_vars

\* C34 witness: a user has sent !alert twice, the first has enabled the
\* alerts and the second has disabled them again, while another user's
\* preference is stored
C34_Witness ==
    /\ Toggled(msg) /\ msg.sent = "alerts_disabled"
    /\ Enabled(msg.alerts, msg.author)
    /\ ~Enabled(user_alerts, msg.author)
    /\ \E u \in DOMAIN user_alerts : u # msg.author

\* the entry of command_counts a message of this user starts from
CountsOf(user_id) ==
    IF user_id \in DOMAIN command_counts THEN command_counts[user_id]
    ELSE [count |-> 0, reset_time |-> clock']

\* a message has been handled in this step
Arrived == nmsgs' = nmsgs + 1

\* C31: within a rate-limit window of a user (the clock has not passed the
\* reset_time of the user's counter) every message check_rate_limit lets
\* through is counted, the count never exceeds MAX_COMMANDS_PER_MINUTE, and
\* every message of the user that arrives when the count has reached it is
\* refused with the rate-limit warning and changes no store; no message is
\* refused before that, and no message changes another user's counter.
C31_RateLimit ==
    [][ Arrived =>
          LET u == msg'.author
              before == CountsOf(u)
              after == command_counts'[u]
              inWindow == clock' <= before.reset_time
              refused == msg'.stage = "rate_limit"
          IN  /\ after.count <= MAX_COMMANDS_PER_MINUTE
              /\ inWindow =>
                    /\ after.reset_time = before.reset_time
                    /\ after.count = before.count + (IF refused THEN 0 ELSE 1)
                    /\ refused <=> before.count >= MAX_COMMANDS_PER_MINUTE
              /\ ~inWindow =>
                    /\ ~refused
                    /\ after = [count |-> 1, reset_time |-> clock' + 60]
              /\ refused =>
                    /\ msg'.sent = "rate_limit"
                    /\ Stores' = Stores
                    /\ last_command_time' = last_command_time
              /\ \A v \in DOMAIN command_counts \ {u} :
                    command_counts'[v] = command_counts[v]
      ]_vars

\* C31 witness: in a window opened by a reset, a user has had
\* MAX_COMMANDS_PER_MINUTE messages let through and the next one has been
\* refused with the warning
C31_Witness ==
    /\ msg.stage = "rate_limit" /\ msg.sent = "rate_limit"
    /\ command_counts[msg.author].count = MAX_COMMANDS_PER_MINUTE
    /\ command_counts[msg.author].reset_time > clock

\* C32 as stated: every message that arrives less than COMMAND_COOLDOWN
\* seconds after the last message that passed the cooldown check gets no
\* reply, changes no store and leaves the cooldown timer alone, and a
\* message that arrives later than that is not dropped by the cooldown.
C32_GlobalCooldown ==
    [][ Arrived =>
          /\ clock' - last_command_time < COMMAND_COOLDOWN =>
                /\ msg'.sent = "none"
                /\ Stores' = Stores
                /\ last_command_time' = last_command_time
          /\ clock' - last_command_time >= COMMAND_COOLDOWN =>
                msg'.stage # "global_cooldown"
      ]_vars

\* C32 amended: the same for every message that check_rate_limit lets
\* through (the rate limit is checked first, and a message it refuses is
\* answered with the rate-limit warning); and such a message that arrives
\* COMMAND_COOLDOWN seconds or more after the last one that passed the
\* check passes it and restarts the timer, whatever was dropped in between.
C32_GlobalCooldownAfterRateLimit ==
    [][ (Arrived /\ msg'.stage # "rate_limit") =>
          /\ clock' - last_command_time < COMMAND_COOLDOWN =>
                /\ msg'.stage = "global_cooldown"
                /\ msg'.sent = "none"
                /\ Stores' = Stores
                /\ last_command_time' = last_command_time
          /\ clock' - last_command_time >= COMMAND_COOLDOWN =>
                /\ msg'.stage # "global_cooldown"
                /\ last_command_time' = clock'
      ]_vars

\* C32 witness: a user's message has been dropped without a reply, some
\* seconds after another user's message started the cooldown, and the
\* timer still shows the earlier message
C32_Witness ==
    /\ msg.stage = "global_cooldown" /\ msg.sent = "none"
    /\ last_command_time < clock
    /\ clock - last_command_time < COMMAND_COOLDOWN
    /\ msg.author # BurstAuthor
    /\ Stores = StoresOf(msg.before)

\* the usernames stored in the balance table and the history log
StoredUsernames == ActorsWithRow(points) \cup { e.username : e \in Rows(DB) }

\* the texts that name the user with this id: the id, and the two mentions
\* that is_mention's pattern <@!?\d+> admits
NamesOf(user_id) ==
    { StrOf(user_id), Mention(StrOf(user_id)), Mention(<<"!">> \o StrOf(user_id)) }

\* C35: every stored username begins with "<@" and ends with ">", and the
\* points awarded to a user by id or by mention are the points that
\* get_points(user_id) returns for that user.
C35_NormalizedKeys ==
    /\ \A u \in StoredUsernames : StartsWith(u, <<"<", "@">>) /\ EndsWith(u, <<">">>)
    /\ \A id \in UserIds :
          (Ran("update_points") /\ last.username \in NamesOf(id)) =>
              get_points(DB, id) = Balance(DB, Normalize(last.username))

====
